---- MODULE Spec2Model ----
(***************************************************************************)
(* ESP-IoT-Button.ino as a state machine.                                  *)
(*                                                                         *)
(* One boot cycle runs setup() (loadConfig, the mode-select pin, then      *)
(* either connectWiFi/sendPost/deep sleep or setupAP) and afterwards       *)
(* loop() (the portal's handlers and the inactivity check).  Strings are   *)
(* sequences of one-character strings, so that the text format of          *)
(* /config.txt, String::trim, startsWith and substring are computed the    *)
(* way the firmware computes them.                                         *)
(***************************************************************************)
EXTENDS Integers, Sequences, FiniteSets, TLC

VARIABLES
    pc,               \* position of the firmware in setup()/loop()
    config,           \* struct Config: ssids, postUrl, jsonBody (RAM)
    spiffs,           \* the flash file system: is /config.txt there, and its text
    lastRequestTime,  \* unsigned long lastRequestTime (32 bits)
    time,             \* real milliseconds elapsed since this boot (since `origin`)
    i,                \* loop counter of connectWiFi
    wifiMulti,        \* the access points handed to wifiMulti.addAP, in order
    wifiStatus,       \* WiFi.status(): "WL_CONNECTED" or "WL_DISCONNECTED"
    apOn,             \* setupAP has run: soft AP up, handlers registered
    pin12,            \* the level digitalRead(12) returned in this boot
    runs,             \* calls of wifiMulti.run() in this boot
    connectResult,    \* what connectWiFi returned: "none" yet, "true", "false"
    connectedTo,      \* the registered access point associated with, 0 for none
    flashes,          \* the errorFlash(n) calls made by setup() in this boot
    posts,            \* the HTTP POSTs issued in this boot, in order
    sendPostCalls,    \* calls of sendPost() in this boot
    req,              \* the portal request serviced last, until the next setup()
    idleSince,        \* real time of the last serviced request (or of portal start)
    entryTime,        \* real time at which setup() finished setupAP
    origin            \* millis() at the instant `time` counts from: 0, the boot

vars == << pc, config, spiffs, lastRequestTime, time, i, wifiMulti, wifiStatus,
           apOn, pin12, runs, connectResult, connectedTo, flashes, posts,
           sendPostCalls, req, idleSince, entryTime, origin >>

----------------------------------------------------------------------------
(* Bounds of the model *)

\* a save is followed only while it leaves at most this many networks in the
\* Config: MaxNets where the clock is followed, MaxStored where the text is
MaxNets == 3
MaxStored == 2
\* how far past the timeout the idle time is followed, in ms
MaxOver == 1
\* portal requests are followed up to this many ms past TIMEOUT_MS after boot
MaxServeOver == 1

----------------------------------------------------------------------------
(* 32-bit unsigned arithmetic (unsigned long), as two 16-bit halves *)

W16 == 2^16

U32(n) == [hi |-> (n \div W16) % W16, lo |-> n % W16]

Sub32(a, b) ==
    LET borrow == IF a.lo < b.lo THEN 1 ELSE 0
    IN  [hi |-> (a.hi - b.hi - borrow + W16) % W16,
         lo |-> (a.lo - b.lo + W16) % W16]

Add32(a, b) ==
    LET carry == IF a.lo + b.lo >= W16 THEN 1 ELSE 0
    IN  [hi |-> (a.hi + b.hi + carry) % W16,
         lo |-> (a.lo + b.lo) % W16]

Gt32(a, b) == a.hi > b.hi \/ (a.hi = b.hi /\ a.lo > b.lo)

\* const unsigned long TIMEOUT_MS = 5 * 60 * 1000
TIMEOUT_MS == 5 * 60 * 1000

\* millis(): the low 32 bits of the time since boot
millis == Add32(origin, U32(time))

----------------------------------------------------------------------------
(* Strings *)

NL == "\n"
SP == " "

EmptyStr == << >>

sSSID == << "S", "S", "I", "D", ":" >>
sURL  == << "U", "R", "L", ":" >>
sBODY == << "B", "O", "D", "Y", ":" >>

\* isspace(), over the characters the model uses
IsSpace(c) == c \in {SP, NL}

RECURSIVE TrimLeft(_)
TrimLeft(s) == IF s # << >> /\ IsSpace(Head(s)) THEN TrimLeft(Tail(s)) ELSE s

RECURSIVE TrimRight(_)
TrimRight(s) ==
    IF s # << >> /\ IsSpace(s[Len(s)])
    THEN TrimRight(SubSeq(s, 1, Len(s) - 1))
    ELSE s

\* String::trim
trim(s) == TrimRight(TrimLeft(s))

\* String::startsWith
startsWith(s, p) == Len(s) >= Len(p) /\ SubSeq(s, 1, Len(p)) = p

\* String::substring(from)
substring(s, from) == SubSeq(s, from + 1, Len(s))

----------------------------------------------------------------------------
(* /config.txt *)

EmptyConfig == [ssids |-> << >>, postUrl |-> EmptyStr, jsonBody |-> EmptyStr]

RECURSIVE PrintSsids(_)
PrintSsids(ssids) ==
    IF ssids = << >> THEN << >>
    ELSE sSSID \o Head(ssids).first \o << NL >> \o Head(ssids).second \o << NL >>
         \o PrintSsids(Tail(ssids))

\* the text saveConfig prints
FileText(c) ==
    PrintSsids(c.ssids) \o sURL \o c.postUrl \o << NL >>
                        \o sBODY \o c.jsonBody \o << NL >>

\* The lines file.readStringUntil('\n') returns one after the other, until
\* file.available() is 0: the text split at every '\n', without the empty
\* rest after a final '\n'.
RECURSIVE ReadLines(_, _, _)
ReadLines(text, k, cur) ==
    IF k > Len(text) THEN (IF cur = << >> THEN << >> ELSE << cur >>)
    ELSE IF text[k] = NL THEN << cur >> \o ReadLines(text, k + 1, << >>)
    ELSE ReadLines(text, k + 1, Append(cur, text[k]))

\* the while loop of loadConfig over the lines, from line k on
RECURSIVE ParseLines(_, _, _)
ParseLines(lines, k, c) ==
    IF k > Len(lines) THEN c
    ELSE LET line == trim(lines[k]) IN
         IF startsWith(line, sSSID)
         THEN LET ssid == substring(line, 5)
                  pwd  == IF k + 1 <= Len(lines) THEN trim(lines[k + 1]) ELSE EmptyStr
              IN  ParseLines(lines, k + 2,
                     [c EXCEPT !.ssids = Append(@, [first |-> ssid, second |-> pwd])])
         ELSE IF startsWith(line, sURL)
         THEN ParseLines(lines, k + 1, [c EXCEPT !.postUrl = substring(line, 4)])
         ELSE IF startsWith(line, sBODY)
         THEN ParseLines(lines, k + 1, [c EXCEPT !.jsonBody = substring(line, 5)])
         ELSE ParseLines(lines, k + 1, c)

\* loadConfig: the Config it leaves in `c` given the file system `fs`
loadConfig(fs, c) ==
    IF ~fs.exists THEN c
    ELSE ParseLines(ReadLines(fs.data, 1, << >>), 1, [c EXCEPT !.ssids = << >>])

\* saveConfig: the file system after it; `wrote` is FALSE when SPIFFS.open
\* returns no file, and then every printf writes nothing
saveConfig(fs, c, wrote) ==
    IF wrote THEN [exists |-> TRUE, data |-> FileText(c)] ELSE fs

----------------------------------------------------------------------------
(* What the environment can supply.  An environment E gives the values of  *)
(* the form fields, whether SPIFFS.open gives a file, the idle times at    *)
(* which the clock is looked at, how long connectWiFi may take, the        *)
(* time since boot until which requests arrive, and how many networks a    *)
(* save may leave in the Config.                                           *)

\* the idle times, in ms, around the timeout
IdlePoints == { TIMEOUT_MS } \cup { TIMEOUT_MS + d : d \in 1..MaxOver }

\* short well-formed fields, every write succeeds, the clock followed closely
EnvClock ==
    [ssid     |-> { << >>, << "a" >>, << "b" >> },
     password |-> { << "p" >> },
     url      |-> { << >>, << "u" >> },
     body     |-> { << >>, << "x" >> },
     wrote    |-> { TRUE },
     idle     |-> IdlePoints,
     wait     |-> { TIMEOUT_MS },
     until    |-> TIMEOUT_MS + MaxServeOver,
     nets     |-> MaxNets]

\* fields with blanks and line breaks, writes that fail, requests that all
\* come before the clock has moved
EnvPortal ==
    [ssid     |-> { << >>, << "a" >>, << "b" >>, << "a", SP >> },
     password |-> { << "p" >>, << SP, "p" >> },
     url      |-> { << >>, << "u" >>, << SP >> },
     body     |-> { << >>, << "x" >>, << "x", NL, "y" >> },
     wrote    |-> BOOLEAN,
     idle     |-> { TIMEOUT_MS + 1 },
     wait     |-> { TIMEOUT_MS + 1 },
     until    |-> 0,
     nets     |-> MaxStored]

\* the value http.POST returns: a success status, an error status, a
\* transport error
PostCodes == { 200, 500, -1 }

\* code and text are what server.send answers; serial is what the handler and
\* saveConfig print on Serial, and they print nothing
NoRequest ==
    [op |-> "none", ssid |-> EmptyStr, password |-> EmptyStr, url |-> EmptyStr,
     body |-> EmptyStr, wrote |-> FALSE, before |-> EmptyConfig,
     after |-> EmptyConfig, html |-> EmptyConfig, flash |-> << >>,
     code |-> 0, text |-> "", serial |-> << >>]

----------------------------------------------------------------------------
(* Helpers of the handlers *)

\* the counter bound of the for loop in connectWiFi
maxAttempts == 3

\* only the first stored pair is registered
addFirstAP(list, ssids) ==
    IF ssids = << >> THEN list ELSE Append(list, Head(ssids))

\* the first loop of connectWiFi: wifiMulti.addAP for every stored pair
addAPs(list, ssids) == list \o ssids

\* the argument is ignored: always the default count
errorFlashDefault(log, n) == Append(log, 3)

\* a call of errorFlash(n)
errorFlash(log, n) == Append(log, n)

\* only the first matching pair is erased
RECURSIVE eraseFirst(_, _)
eraseFirst(ssids, target) ==
    IF ssids = << >> THEN << >>
    ELSE IF Head(ssids).first = target THEN Tail(ssids)
    ELSE << Head(ssids) >> \o eraseFirst(Tail(ssids), target)

\* std::remove_if + erase of handleDelete
RECURSIVE eraseMatching(_, _)
eraseMatching(ssids, target) ==
    IF ssids = << >> THEN << >>
    ELSE IF Head(ssids).first = target THEN eraseMatching(Tail(ssids), target)
    ELSE << Head(ssids) >> \o eraseMatching(Tail(ssids), target)

\* a name that is stored already is not stored again
applySaveUnique(c, ssid, pwd, url, body) ==
    [ssids    |-> IF Len(ssid) > 0 /\ \A k \in 1..Len(c.ssids) : c.ssids[k].first # ssid
                  THEN Append(c.ssids, [first |-> ssid, second |-> pwd])
                  ELSE c.ssids,
     postUrl  |-> IF Len(url) > 0 THEN url ELSE c.postUrl,
     jsonBody |-> IF Len(body) > 0 THEN body ELSE c.jsonBody]

\* the three conditional assignments of handleSave
applySave(c, ssid, pwd, url, body) ==
    [ssids    |-> IF Len(ssid) > 0
                  THEN Append(c.ssids, [first |-> ssid, second |-> pwd])
                  ELSE c.ssids,
     postUrl  |-> IF Len(url) > 0 THEN url ELSE c.postUrl,
     jsonBody |-> IF Len(body) > 0 THEN body ELSE c.jsonBody]

\* what handleRoot renders of the Config: the names, the URL and the body
renderRoot(c) ==
    [ssids    |-> [k \in 1..Len(c.ssids) |-> c.ssids[k].first],
     postUrl  |-> c.postUrl,
     jsonBody |-> c.jsonBody]

\* the mode-select pin is not looked at
armedAlways(level) == TRUE

\* the first operand of the condition of setup(): digitalRead(12) == 1
armed(level) == level = 1

\* the URL is sent as the body
postBodyUrl(c) == c.postUrl

\* the body sendPost hands to http.POST
postBody(c) == c.jsonBody

\* the endpoint is not looked at
shouldPostAnyUrl(status, c) == status = "WL_CONNECTED"

\* the condition of sendPost
shouldPost(status, c) == status = "WL_CONNECTED" /\ Len(c.postUrl) > 0

\* the threshold is twice TIMEOUT_MS
timedOutLate(now32, last32) ==
    Gt32(Sub32(now32, last32), U32(2 * TIMEOUT_MS))

\* >= in the place of >
timedOutEarly(now32, last32) ==
    ~Gt32(U32(TIMEOUT_MS), Sub32(now32, last32))

\* the deadline is computed by an addition: millis() > lastRequestTime + TIMEOUT_MS
timedOutSum(now32, last32) == Gt32(now32, Add32(last32, U32(TIMEOUT_MS)))

\* the condition of loop()
timedOut(now32, last32) == Gt32(Sub32(now32, last32), U32(TIMEOUT_MS))

\* the time of the boot is stored, whatever the clock says
stampBoot(now32) == U32(0)

\* the value the handlers and setup() store in lastRequestTime
stamp(now32) == now32

----------------------------------------------------------------------------
(* Boot *)

\* the RAM of a fresh boot; the flash keeps /config.txt
FreshRam ==
    /\ config' = EmptyConfig
    /\ lastRequestTime' = U32(0)
    /\ time' = 0
    /\ i' = 0
    /\ wifiMulti' = << >>
    /\ wifiStatus' = "WL_DISCONNECTED"
    /\ apOn' = FALSE
    /\ pin12' = -1
    /\ runs' = 0
    /\ connectResult' = "none"
    /\ connectedTo' = 0
    /\ flashes' = << >>
    /\ posts' = << >>
    /\ sendPostCalls' = 0
    /\ idleSince' = 0
    /\ entryTime' = 0
    /\ origin' = U32(0)

Init ==
    /\ pc = "setup"
    /\ spiffs = [exists |-> FALSE, data |-> << >>]
    /\ config = EmptyConfig
    /\ lastRequestTime = U32(0)
    /\ time = 0
    /\ i = 0
    /\ wifiMulti = << >>
    /\ wifiStatus = "WL_DISCONNECTED"
    /\ apOn = FALSE
    /\ pin12 = -1
    /\ runs = 0
    /\ connectResult = "none"
    /\ connectedTo = 0
    /\ flashes = << >>
    /\ posts = << >>
    /\ sendPostCalls = 0
    /\ req = NoRequest
    /\ idleSince = 0
    /\ entryTime = 0
    /\ origin = U32(0)

\* connectWiFi() is evaluated before the pin is looked at
SetupEager(level) ==
    /\ pc = "setup"
    /\ config' = loadConfig(spiffs, config)
    /\ pin12' = level
    /\ wifiMulti' = addAPs(wifiMulti, config'.ssids)
    /\ pc' = "connectWiFi"
    /\ req' = NoRequest
    /\ UNCHANGED << spiffs, lastRequestTime, time, i, wifiStatus, apOn, runs,
                    connectResult, connectedTo, flashes, posts, sendPostCalls,
                    idleSince, entryTime, origin >>

\* setup() up to the condition: loadConfig, digitalRead(12), and, with the
\* pin high, the addAP loop that opens connectWiFi
Setup(level) ==
    /\ pc = "setup"
    /\ config' = loadConfig(spiffs, config)
    /\ pin12' = level
    /\ IF armed(level)
       THEN /\ wifiMulti' = addAPs(wifiMulti, config'.ssids)
            /\ pc' = "connectWiFi"
       ELSE /\ wifiMulti' = wifiMulti
            /\ pc' = "setupAP"
    /\ req' = NoRequest
    /\ UNCHANGED << spiffs, lastRequestTime, time, i, wifiStatus, apOn, runs,
                    connectResult, connectedTo, flashes, posts, sendPostCalls,
                    idleSince, entryTime, origin >>

\* one iteration of the for loop of connectWiFi; k is the registered access
\* point wifiMulti.run() associates with, 0 when it associates with none
ConnectWiFi(k) ==
    /\ pc = "connectWiFi"
    /\ i < maxAttempts
    /\ k \in 0..Len(wifiMulti)
    /\ k > 0 => Len(wifiMulti[k].first) > 0
    /\ runs' = runs + 1
    /\ IF k > 0
       THEN /\ wifiStatus' = "WL_CONNECTED"
            /\ connectedTo' = k
            /\ connectResult' = "true"
            /\ pc' = "sendPost"
            /\ UNCHANGED << i, flashes >>
       ELSE /\ flashes' = errorFlash(flashes, 1)
            /\ i' = i + 1
            /\ connectResult' = IF i + 1 < maxAttempts THEN "none" ELSE "false"
            /\ pc' = IF i + 1 < maxAttempts THEN "connectWiFi" ELSE "setupAP"
            /\ UNCHANGED << wifiStatus, connectedTo >>
    /\ UNCHANGED << config, spiffs, lastRequestTime, time, wifiMulti, apOn,
                    pin12, posts, sendPostCalls, req, idleSince, entryTime, origin >>

\* the association is lost between connectWiFi and sendPost
LinkLost ==
    /\ pc = "sendPost"
    /\ wifiStatus = "WL_CONNECTED"
    /\ wifiStatus' = "WL_DISCONNECTED"
    /\ UNCHANGED << pc, config, spiffs, lastRequestTime, time, i, wifiMulti,
                    apOn, pin12, runs, connectResult, connectedTo, flashes,
                    posts, sendPostCalls, req, idleSince, entryTime, origin >>

\* sendPost(); code is what http.POST returns when it is called
SendPost(code) ==
    /\ pc = "sendPost"
    /\ IF shouldPost(wifiStatus, config)
       THEN posts' = Append(posts, [url |-> config.postUrl,
                                    body |-> postBody(config), code |-> code])
       ELSE /\ code = 200
            /\ posts' = posts
    /\ flashes' = errorFlash(flashes, 1)
    /\ sendPostCalls' = sendPostCalls + 1
    /\ pc' = "goToDeepSleep"
    /\ UNCHANGED << config, spiffs, lastRequestTime, time, i, wifiMulti,
                    wifiStatus, apOn, pin12, runs, connectResult, connectedTo,
                    req, idleSince, entryTime, origin >>

\* goToDeepSleep() at the end of the operate branch of setup()
SetupGoToDeepSleep ==
    /\ pc = "goToDeepSleep"
    /\ pc' = "suspended"
    /\ UNCHANGED << config, spiffs, lastRequestTime, time, i, wifiMulti,
                    wifiStatus, apOn, pin12, runs, connectResult, connectedTo,
                    flashes, posts, sendPostCalls, req, idleSince, entryTime, origin >>

\* the else branch of setup(): setupAP, lastRequestTime = millis(), errorFlash()
SetupAP ==
    /\ pc = "setupAP"
    /\ apOn' = TRUE
    /\ lastRequestTime' = stamp(millis)
    /\ flashes' = errorFlash(flashes, 3)
    /\ idleSince' = time
    /\ entryTime' = time
    /\ pc' = "handleClient"
    /\ UNCHANGED << config, spiffs, time, i, wifiMulti, wifiStatus, pin12,
                    runs, connectResult, connectedTo, posts, sendPostCalls,
                    req, origin >>

----------------------------------------------------------------------------
(* loop(): server.handleClient(), then the inactivity check *)

\* server.handleClient() with no request pending
HandleNone ==
    /\ pc = "handleClient"
    /\ pc' = "checkTimeout"
    /\ UNCHANGED << config, spiffs, lastRequestTime, time, i, wifiMulti,
                    wifiStatus, apOn, pin12, runs, connectResult, connectedTo,
                    flashes, posts, sendPostCalls, req, idleSince, entryTime, origin >>

\* the view writes the Config it shows to /config.txt
HandleRootSaving ==
    /\ pc = "handleClient"
    /\ lastRequestTime' = stamp(millis)
    /\ spiffs' = saveConfig(spiffs, config, TRUE)
    /\ req' = [NoRequest EXCEPT !.op = "view", !.before = config,
                                !.after = config, !.html = renderRoot(config),
                                !.code = 200, !.text = "text/html",
                                !.flash = errorFlash(<< >>, 1)]
    /\ idleSince' = time
    /\ pc' = "checkTimeout"
    /\ UNCHANGED << config, time, i, wifiMulti, wifiStatus, apOn, pin12, runs,
                    connectResult, connectedTo, flashes, posts, sendPostCalls,
                    entryTime, origin >>

\* handleRoot: GET /
HandleRoot ==
    /\ pc = "handleClient"
    /\ lastRequestTime' = stamp(millis)
    /\ req' = [NoRequest EXCEPT !.op = "view", !.before = config,
                                !.after = config, !.html = renderRoot(config),
                                !.code = 200, !.text = "text/html",
                                !.flash = errorFlash(<< >>, 1)]
    /\ idleSince' = time
    /\ pc' = "checkTimeout"
    /\ UNCHANGED << config, spiffs, time, i, wifiMulti, wifiStatus, apOn,
                    pin12, runs, connectResult, connectedTo, flashes, posts,
                    sendPostCalls, entryTime, origin >>

\* handleDelete: GET /delete?ssid=target
HandleDelete(target, wrote) ==
    /\ pc = "handleClient"
    /\ lastRequestTime' = stamp(millis)
    /\ config' = [config EXCEPT !.ssids = eraseMatching(@, target)]
    /\ spiffs' = saveConfig(spiffs, config', wrote)
    /\ req' = [NoRequest EXCEPT !.op = "delete", !.ssid = target,
                                !.wrote = wrote, !.before = config,
                                !.after = config',
                                !.code = 302, !.text = "Deleted. Redirecting...",
                                !.flash = errorFlash(<< >>, 1)]
    /\ idleSince' = time
    /\ pc' = "checkTimeout"
    /\ UNCHANGED << time, i, wifiMulti, wifiStatus, apOn, pin12, runs,
                    connectResult, connectedTo, flashes, posts, sendPostCalls,
                    entryTime, origin >>

\* the restart is made only when the file was written; otherwise the handler
\* returns to loop() like handleDelete
HandleSaveIfWritten(ssid, pwd, url, body, wrote) ==
    LET after == applySave(config, ssid, pwd, url, body) IN
    /\ pc = "handleClient"
    /\ spiffs' = saveConfig(spiffs, after, wrote)
    /\ req' = [NoRequest EXCEPT !.op = "save", !.ssid = ssid, !.password = pwd,
                                !.url = url, !.body = body, !.wrote = wrote,
                                !.before = config, !.after = after,
                                !.code = 200, !.text = "Saved. Rebooting...",
                                !.flash = errorFlash(<< >>, 3)]
    /\ IF wrote
       THEN pc' = "setup" /\ FreshRam
       ELSE /\ pc' = "checkTimeout"
            /\ config' = after
            /\ lastRequestTime' = stamp(millis)
            /\ idleSince' = time
            /\ UNCHANGED << time, i, wifiMulti, wifiStatus, apOn, pin12, runs,
                            connectResult, connectedTo, flashes, posts,
                            sendPostCalls, entryTime, origin >>

\* handleSave: POST /save, through ESP.restart(): the RAM is that of a fresh
\* boot afterwards, and req keeps what the handler did until setup() runs
HandleSave(ssid, pwd, url, body, wrote) ==
    LET after == applySave(config, ssid, pwd, url, body) IN
    /\ pc = "handleClient"
    /\ spiffs' = saveConfig(spiffs, after, wrote)
    /\ req' = [NoRequest EXCEPT !.op = "save", !.ssid = ssid, !.password = pwd,
                                !.url = url, !.body = body, !.wrote = wrote,
                                !.before = config, !.after = after,
                                !.code = 200, !.text = "Saved. Rebooting...",
                                !.flash = errorFlash(<< >>, 3)]
    /\ pc' = "setup"
    /\ FreshRam

\* the if of loop(): goToDeepSleep once the idle time exceeds TIMEOUT_MS
CheckTimeout ==
    /\ pc = "checkTimeout"
    /\ pc' = IF timedOut(millis, lastRequestTime) THEN "suspended"
             ELSE "handleClient"
    /\ UNCHANGED << config, spiffs, lastRequestTime, time, i, wifiMulti,
                    wifiStatus, apOn, pin12, runs, connectResult, connectedTo,
                    flashes, posts, sendPostCalls, req, idleSince, entryTime, origin >>

\* the sleep keeps the RAM, and the firmware goes on where it stopped
WakeWarm ==
    /\ pc = "suspended"
    /\ pc' = IF apOn THEN "handleClient" ELSE "sendPost"
    /\ UNCHANGED << config, spiffs, lastRequestTime, time, i, wifiMulti,
                    wifiStatus, apOn, pin12, runs, connectResult, connectedTo,
                    flashes, posts, sendPostCalls, req, idleSince, entryTime,
                    origin >>

\* the button wakes the device from deep sleep: a new boot
Wake ==
    /\ pc = "suspended"
    /\ pc' = "setup"
    /\ req' = NoRequest
    /\ FreshRam
    /\ UNCHANGED spiffs

\* time passes while the firmware polls in loop(): the clock moves on to the
\* next idle time p looked at
Tick(p) ==
    /\ pc \in {"handleClient", "checkTimeout"}
    /\ p > time - idleSince
    /\ time' = idleSince + p
    /\ UNCHANGED << pc, config, spiffs, lastRequestTime, i, wifiMulti,
                    wifiStatus, apOn, pin12, runs, connectResult, connectedTo,
                    flashes, posts, sendPostCalls, req, idleSince, entryTime, origin >>

\* wifiMulti.run() takes its time: the clock moves on while connectWiFi runs
Wait(p) ==
    /\ pc = "connectWiFi"
    /\ time = 0
    /\ time' = p
    /\ UNCHANGED << pc, config, spiffs, lastRequestTime, i, wifiMulti,
                    wifiStatus, apOn, pin12, runs, connectResult, connectedTo,
                    flashes, posts, sendPostCalls, req, idleSince, entryTime, origin >>

\* the steps of the firmware in environment E
Step(E) ==
    \/ \E level \in {0, 1} : Setup(level)
    \/ \E k \in 0..Len(wifiMulti) : ConnectWiFi(k)
    \/ LinkLost
    \/ \E code \in PostCodes : SendPost(code)
    \/ SetupGoToDeepSleep
    \/ SetupAP
    \/ HandleNone
    \/ time <= E.until /\ HandleRoot
    \/ /\ time <= E.until
       /\ \E target \in E.ssid, wrote \in E.wrote : HandleDelete(target, wrote)
    \/ /\ time <= E.until
       /\ \E ssid \in E.ssid, pwd \in E.password, url \in E.url,
             body \in E.body, wrote \in E.wrote :
               /\ Len(applySave(config, ssid, pwd, url, body).ssids) <= E.nets
               /\ HandleSave(ssid, pwd, url, body, wrote)
    \/ CheckTimeout
    \/ Wake
    \/ \E p \in E.idle : Tick(p)
    \/ \E p \in E.wait : Wait(p)

Next == Step(EnvClock)

Spec == Init /\ [][Next]_vars

\* loop() is called again and again, setup() runs to its end, and time passes
FairSpec ==
    /\ Spec
    /\ WF_vars(SetupAP)
    /\ WF_vars(HandleNone)
    /\ WF_vars(CheckTimeout)
    /\ WF_vars(\E p \in EnvClock.idle : Tick(p))

NextPortal == Step(EnvPortal)

SpecPortal == Init /\ [][NextPortal]_vars

----------------------------------------------------------------------------
(* The run modes of a boot *)

Booting     == pc \in {"setup", "connectWiFi"}
Operating   == pc \in {"sendPost", "goToDeepSleep"}
Configuring == pc \in {"setupAP", "handleClient", "checkTimeout"}
Suspended   == pc = "suspended"

\* the Config /config.txt holds, as the next boot would load it
Stored == loadConfig(spiffs, EmptyConfig)

\* n failure blinks
Ones(n) == [k \in 1..n |-> 1]

----------------------------------------------------------------------------
(* C1: a boot is in Operating only with the mode-select pin read high and  *)
(* connectWiFi returned true, and in Configuring only with the pin read    *)
(* low (connectWiFi never called) or the pin high and connectWiFi returned *)
(* false; and once the pin is read and connectWiFi is done, the boot is in *)
(* the mode these two decide, the portal being up after setupAP.           *)
C1_ModeDecision ==
    /\ Operating => pin12 = 1 /\ connectResult = "true"
    /\ Configuring =>
          \/ pin12 = 0 /\ connectResult = "none" /\ runs = 0
          \/ pin12 = 1 /\ connectResult = "false"
    /\ pin12 = 1 /\ connectResult = "true" => (Operating \/ Suspended) /\ ~apOn
    /\ pin12 = 0 \/ connectResult = "false" => Configuring \/ (Suspended /\ apOn)
    /\ pc \in {"handleClient", "checkTimeout"} => apOn

\* the portal is up in a boot whose pin read high and whose three attempts failed
C1_Witness ==
    /\ pc = "handleClient"
    /\ apOn
    /\ pin12 = 1
    /\ connectResult = "false"

----------------------------------------------------------------------------
(* C2: in Operating sendPost is called exactly once, at most one POST is   *)
(* issued and its body is the stored payload, and the next step after      *)
(* sendPost is the deep sleep, whatever http.POST returned and whether or  *)
(* not a POST was issued.                                                  *)
C2_State ==
    /\ pc = "sendPost" => sendPostCalls = 0 /\ posts = << >>
    /\ pc = "goToDeepSleep" \/ (Suspended /\ ~apOn) =>
          /\ sendPostCalls = 1
          /\ Len(posts) <= 1
          /\ \A k \in 1..Len(posts) :
                /\ posts[k].body = config.jsonBody
                /\ posts[k].body = Stored.jsonBody

C2_Step ==
    /\ pc = "sendPost" => pc' \in {"sendPost", "goToDeepSleep"}
    /\ pc = "goToDeepSleep" => pc' = "suspended"

C2_PostOnceThenSleep == []C2_State /\ [][C2_Step]_vars

\* suspended after the one POST of the stored payload met a transport error,
\* the network having associated at the second attempt
C2_Witness ==
    /\ Suspended
    /\ runs = 2
    /\ Len(posts) = 1
    /\ posts[1].code = -1
    /\ posts[1].body = << "x" >>
    /\ sendPostCalls = 1

----------------------------------------------------------------------------
(* C3: a check of loop() made more than TIMEOUT_MS after the last serviced *)
(* request (or after the portal started, when none was serviced) suspends  *)
(* the device; and, requests arriving only for a bounded time, every boot  *)
(* in Configuring ends suspended or in the reboot of a save.               *)
C3_Step ==
    pc = "checkTimeout" /\ pc' # "checkTimeout" /\ time - idleSince > TIMEOUT_MS
        => pc' = "suspended"

C3_IdleSuspends ==
    /\ [][C3_Step]_vars
    /\ Configuring ~> (Suspended \/ pc = "setup")

\* suspended by loop() one millisecond past five idle minutes
C3_Witness ==
    /\ Suspended
    /\ apOn
    /\ time - idleSince = TIMEOUT_MS + 1

----------------------------------------------------------------------------
(* C4: while the portal is up lastRequestTime is the time of the last      *)
(* serviced request (of setupAP when none was serviced yet), and loop()    *)
(* has suspended the device only when more than TIMEOUT_MS had passed      *)
(* since then.                                                             *)
C4_TimerFromLastRequest ==
    /\ apOn => lastRequestTime = U32(idleSince)
    /\ Suspended /\ apOn => time - idleSince > TIMEOUT_MS

\* not suspended although more than five minutes have passed since the portal
\* started: a view was serviced, and exactly five minutes have passed since
C4_Witness ==
    /\ pc = "handleClient"
    /\ req.op = "view"
    /\ time - entryTime > TIMEOUT_MS
    /\ time - idleSince = TIMEOUT_MS

----------------------------------------------------------------------------
(* C5: when the attempts begin every stored pair is registered; connectWiFi*)
(* calls wifiMulti.run() at most 3 times, returns true at the first call   *)
(* that associates and false only after 3 calls that did not, and has      *)
(* blinked once for each call that did not.                                *)
C5_BoundedAttempts ==
    /\ runs <= 3
    /\ pc = "connectWiFi" =>
          /\ wifiMulti = config.ssids
          /\ runs = i
          /\ runs < 3
          /\ flashes = Ones(i)
          /\ connectResult = "none"
    /\ connectResult = "true" =>
          /\ runs = i + 1
          /\ connectedTo \in 1..Len(wifiMulti)
          /\ wifiMulti = config.ssids
          /\ pc = "sendPost" => flashes = Ones(i)
    /\ connectResult = "false" =>
          /\ runs = 3
          /\ i = 3
          /\ pc = "setupAP" => flashes = Ones(3)

\* associated at the third call with the second of three registered networks,
\* whose name is not that of the first
C5_Witness ==
    /\ pc = "sendPost"
    /\ Len(wifiMulti) = 3
    /\ connectedTo = 2
    /\ wifiMulti[2].first # wifiMulti[1].first
    /\ runs = 3
    /\ flashes = Ones(2)

----------------------------------------------------------------------------
(* C6: with the pin high and no network stored, connectWiFi makes no call  *)
(* of wifiMulti.run() (it fails at once, without waiting on an attempt).   *)
C6_EmptyListNoAttempt ==
    pin12 = 1 /\ wifiMulti = << >> => runs = 0 /\ flashes = << >>

----------------------------------------------------------------------------
(* C7: sendPost issues a POST exactly when WiFi.status() is WL_CONNECTED   *)
(* and postUrl is not empty, to postUrl, and then only one; it is never    *)
(* called twice in a boot.                                                 *)
C7_PostOnlyIfAssociated ==
    /\ sendPostCalls <= 1
    /\ sendPostCalls = 0 => posts = << >>
    /\ sendPostCalls = 1 =>
          /\ Len(posts) = IF wifiStatus = "WL_CONNECTED" /\ config.postUrl # << >>
                          THEN 1 ELSE 0
          /\ \A k \in 1..Len(posts) : posts[k].url = config.postUrl

\* sendPost has returned without a POST: an endpoint is stored, the link was lost
C7_Witness ==
    /\ pc = "goToDeepSleep"
    /\ wifiStatus = "WL_DISCONNECTED"
    /\ config.postUrl # << >>
    /\ posts = << >>

----------------------------------------------------------------------------
(* Networks of a list *)

NoEntry(ssids, id) == \A k \in 1..Len(ssids) : ssids[k].first # id

Count(ssids, id) == Cardinality({ k \in 1..Len(ssids) : ssids[k].first = id })

----------------------------------------------------------------------------
(* C8: after handleDelete the Config holds no pair named as the request    *)
(* asked, the other pairs are kept in their order, a view serviced next    *)
(* lists no such name, and, the file written, /config.txt is the text of   *)
(* that Config and loads without such a pair.                              *)
C8_State ==
    req.op = "delete" =>
        LET Other(e) == e.first # req.ssid IN
        /\ config = req.after
        /\ NoEntry(config.ssids, req.ssid)
        /\ config.ssids = SelectSeq(req.before.ssids, Other)
        /\ req.wrote =>
              /\ spiffs.exists
              /\ spiffs.data = FileText(config)
              /\ NoEntry(Stored.ssids, req.ssid)
              /\ Stored.ssids = config.ssids

C8_Step ==
    req.op = "delete" /\ req'.op = "view" =>
        \A k \in 1..Len(req'.html.ssids) : req'.html.ssids[k] # req.ssid

C8_DeleteRemovesAll == []C8_State /\ [][C8_Step]_vars

\* a delete of a name stored twice has been serviced and written
C8_Witness ==
    /\ req.op = "delete"
    /\ Count(req.before.ssids, req.ssid) = 2
    /\ req.wrote
    /\ pc = "checkTimeout"

----------------------------------------------------------------------------
(* C9: handleSave appends the pair (ssid, password) at the end of the list *)
(* when ssid is not empty, also when the name is stored already, and       *)
(* leaves the list as it was when ssid is empty, whatever the password;    *)
(* the file written, /config.txt is the text of that Config.               *)
C9_AddAppendsOne ==
    req.op = "save" =>
        /\ req.after.ssids =
              IF req.ssid # << >>
              THEN Append(req.before.ssids,
                          [first |-> req.ssid, second |-> req.password])
              ELSE req.before.ssids
        /\ req.wrote => spiffs.exists /\ spiffs.data = FileText(req.after)

\* a name stored once was saved again and the file written: it is stored twice
C9_Witness ==
    /\ req.op = "save"
    /\ req.ssid = << "a" >>
    /\ Count(req.before.ssids, req.ssid) = 1
    /\ req.wrote
    /\ Count(Stored.ssids, req.ssid) = 2

----------------------------------------------------------------------------
(* C10: handleSave changes postUrl only to a supplied value that is not    *)
(* empty, and jsonBody likewise, and no step of the portal turns a stored  *)
(* endpoint or payload that is not empty into an empty one.                *)
C10_State ==
    req.op = "save" =>
        /\ req.after.postUrl =
              IF req.url # << >> THEN req.url ELSE req.before.postUrl
        /\ req.after.jsonBody =
              IF req.body # << >> THEN req.body ELSE req.before.jsonBody

C10_Step ==
    /\ Stored.postUrl # << >> => Stored'.postUrl # << >>
    /\ Stored.jsonBody # << >> => Stored'.jsonBody # << >>

C10_NeverCleared == []C10_State /\ [][C10_Step]_vars

----------------------------------------------------------------------------
(* C11: every step that services a POST /save ends in the restart, whatever*)
(* the fields (all empty too) and whether or not the file was written: the *)
(* file is written first when it can be, then the device is at the start   *)
(* of setup() with the RAM of a fresh boot; a step that services a view or *)
(* a delete stays in loop(); and setup() is entered again only by a save   *)
(* or by the wake from deep sleep.                                         *)
C11_State ==
    req.op = "save" =>
        /\ pc = "setup"
        /\ Booting
        /\ config = EmptyConfig
        /\ ~apOn
        /\ time = 0
        /\ pin12 = -1

C11_Step ==
    /\ pc = "handleClient" /\ pc' # pc /\ req'.op = "save" =>
          /\ pc' = "setup"
          /\ spiffs' = IF req'.wrote
                       THEN [exists |-> TRUE, data |-> FileText(req'.after)]
                       ELSE spiffs
    /\ pc = "handleClient" /\ pc' # pc /\ req'.op \in {"view", "delete"} =>
          /\ pc' = "checkTimeout"
          /\ apOn'
          /\ time' = time
    /\ pc # "setup" /\ pc' = "setup" =>
          \/ pc = "suspended"
          \/ pc = "handleClient" /\ req'.op = "save"

C11_SaveAlwaysReboots == []C11_State /\ [][C11_Step]_vars

\* restarted by a save that supplied no name, endpoint or payload and whose
\* write failed
C11_Witness ==
    /\ req.op = "save"
    /\ req.ssid = << >> /\ req.password = << "p" >>
    /\ req.url = << >> /\ req.body = << >>
    /\ ~req.wrote
    /\ pc = "setup"
    /\ ~spiffs.exists

----------------------------------------------------------------------------
(* saveConfig and loadConfig on their own: a Config is saved over whatever *)
(* /config.txt held, the device restarts, and loadConfig reads it back.    *)

\* the field values of the Configs saved
StoreNames   == { << >>, << "a" >>, << "a", SP >> }
StoreSecrets == { << >>, << "p" >>, << SP, "p" >> }
StoreUrls    == { << >>, << "u" >>, sSSID }
StoreBodies  == { << >>, << "x" >>, << "x", SP >>, << "x", NL, "y" >> }

StorePairs == [first : StoreNames, second : StoreSecrets]

StoreLists == UNION { [1..n -> StorePairs] : n \in 0..MaxStored }

StoreConfigs == [ssids : StoreLists, postUrl : StoreUrls, jsonBody : StoreBodies]

\* a file left by an earlier save
OldFile ==
    FileText([ssids    |-> << [first |-> << "b" >>, second |-> << "q" >>] >>,
              postUrl  |-> << "v" >>,
              jsonBody |-> << "w" >>])

InitStore ==
    /\ pc = "saveConfig"
    /\ config \in StoreConfigs
    /\ spiffs \in { [exists |-> FALSE, data |-> << >>],
                    [exists |-> TRUE, data |-> OldFile] }
    /\ lastRequestTime = U32(0)
    /\ time = 0
    /\ i = 0
    /\ wifiMulti = << >>
    /\ wifiStatus = "WL_DISCONNECTED"
    /\ apOn = FALSE
    /\ pin12 = -1
    /\ runs = 0
    /\ connectResult = "none"
    /\ connectedTo = 0
    /\ flashes = << >>
    /\ posts = << >>
    /\ sendPostCalls = 0
    /\ req = NoRequest
    /\ idleSince = 0
    /\ entryTime = 0
    /\ origin = U32(0)

\* saveConfig of the Config in RAM, the file opening; the restart that follows
\* leaves the RAM empty, and req keeps the Config that was saved
StoreSave ==
    /\ pc = "saveConfig"
    /\ spiffs' = saveConfig(spiffs, config, TRUE)
    /\ req' = [NoRequest EXCEPT !.op = "store", !.wrote = TRUE,
                                !.before = config, !.after = config]
    /\ config' = EmptyConfig
    /\ pc' = "loadConfig"
    /\ UNCHANGED << lastRequestTime, time, i, wifiMulti, wifiStatus, apOn,
                    pin12, runs, connectResult, connectedTo, flashes, posts,
                    sendPostCalls, idleSince, entryTime, origin >>

\* loadConfig at the boot that follows
StoreLoad ==
    /\ pc = "loadConfig"
    /\ config' = loadConfig(spiffs, config)
    /\ pc' = "loaded"
    /\ UNCHANGED << spiffs, lastRequestTime, time, i, wifiMulti, wifiStatus,
                    apOn, pin12, runs, connectResult, connectedTo, flashes,
                    posts, sendPostCalls, req, idleSince, entryTime, origin >>

NextStore == StoreSave \/ StoreLoad

SpecStore == InitStore /\ [][NextStore]_vars

\* no field holds the line break that delimits the lines of the file
NoLineBreak(str) == \A k \in 1..Len(str) : str[k] # NL

WellFormed(c) ==
    /\ \A k \in 1..Len(c.ssids) :
          NoLineBreak(c.ssids[k].first) /\ NoLineBreak(c.ssids[k].second)
    /\ NoLineBreak(c.postUrl)
    /\ NoLineBreak(c.jsonBody)

----------------------------------------------------------------------------
(* C12: a Config none of whose fields holds a line break, saved and then   *)
(* loaded at the next boot, is loaded as it was saved: the same pairs in   *)
(* the same order, the same postUrl and the same jsonBody.                 *)
C12_RoundTrip ==
    pc = "loaded" /\ WellFormed(req.before) => config = req.before

----------------------------------------------------------------------------
(* What the client and the console learn of a request *)

\* the answer tells the client that the request failed
Informed(r) == r.code >= 400

\* something was printed on Serial while the request was serviced
Logged(r) == r.serial # << >>

\* /config.txt is the text of Config c, or at least loads as c
Durable(c) == (spiffs.exists /\ spiffs.data = FileText(c)) \/ Stored = c

----------------------------------------------------------------------------
(* C13: once handleDelete or handleSave has serviced a request, either     *)
(* /config.txt holds the Config the handler left in RAM (its text, or a    *)
(* text that loads as it), or the answer sent to the client says that the  *)
(* write failed.                                                           *)
C13_Reconciled ==
    req.op \in {"delete", "save"} => Durable(req.after) \/ Informed(req)

----------------------------------------------------------------------------
(* C14: when the write of handleDelete or handleSave fails, the failure is *)
(* printed on Serial, the Config in RAM keeps the change (handleDelete),   *)
(* and handleSave still restarts the device.                               *)
C14_FailedWrite ==
    req.op \in {"delete", "save"} /\ ~req.wrote =>
        /\ Logged(req)
        /\ req.op = "delete" => config = req.after
        /\ req.op = "save" => pc = "setup"

----------------------------------------------------------------------------
(* A boot with the pin high and one stored network, whose three attempts   *)
(* failed, has started the portal and has serviced no request yet.         *)
FailedBootOfOne ==
    /\ apOn
    /\ pin12 = 1
    /\ Len(config.ssids) = 1
    /\ connectResult = "false"
    /\ req.op = "none"

(* C15, as amended: in such a boot the portal is up or the device has      *)
(* suspended, and the inactivity timer runs from the instant setup()       *)
(* started the portal, after the three attempts: lastRequestTime is the    *)
(* clock at that instant, and a check of loop() suspends the device        *)
(* exactly when more than TIMEOUT_MS have passed since then.               *)
C15_State ==
    FailedBootOfOne =>
        /\ runs = 3
        /\ flashes = << 1, 1, 1, 3 >>
        /\ pc \in {"handleClient", "checkTimeout", "suspended"}
        /\ lastRequestTime = U32(entryTime)
        /\ Suspended => time - entryTime > TIMEOUT_MS

C15_Step ==
    FailedBootOfOne /\ pc = "checkTimeout" /\ pc' # pc =>
        (pc' = "suspended" <=> time - entryTime > TIMEOUT_MS)

C15_DeadlineFromEntry == []C15_State /\ [][C15_Step]_vars

\* the attempts took their time, and the device has suspended one millisecond
\* past five minutes after the portal started
C15_Witness ==
    /\ FailedBootOfOne
    /\ entryTime > 0
    /\ Suspended
    /\ time - entryTime = TIMEOUT_MS + 1

(* C15, as stated: in such a boot the inactivity timer runs from the boot: *)
(* lastRequestTime is the clock at the boot, 0.                            *)
C15_DeadlineFromBoot ==
    FailedBootOfOne => lastRequestTime = U32(0)

----------------------------------------------------------------------------
(* C16: a boot whose connectWiFi returned true never starts the portal nor *)
(* services a request; a boot that started the portal never calls sendPost *)
(* nor issues a POST; no step leads from Operating to Configuring or back; *)
(* and the only step of a suspended device is the wake, which starts a new *)
(* boot at setup() with nothing posted and no request serviced.            *)
C16_State ==
    /\ connectResult = "true" =>
          /\ ~apOn
          /\ req.op = "none"
          /\ Operating \/ Suspended
    /\ Configuring \/ apOn =>
          /\ sendPostCalls = 0
          /\ posts = << >>
          /\ connectResult # "true"
    /\ req.op \in {"view", "delete"} => apOn
    /\ ~(Operating /\ Configuring)

C16_Step ==
    /\ Operating => Operating' \/ Suspended'
    /\ Configuring => Configuring' \/ Suspended' \/ pc' = "setup"
    /\ Suspended =>
          /\ pc' = "setup"
          /\ spiffs' = spiffs
          /\ req'.op = "none"
          /\ posts' = << >>
          /\ sendPostCalls' = 0
          /\ ~apOn'

C16_ModeChosenOnce == []C16_State /\ [][C16_Step]_vars

\* suspended by loop() in a boot that fell back to the portal after three failed
\* attempts and serviced a view
C16_Witness ==
    /\ Suspended
    /\ apOn
    /\ pin12 = 1
    /\ connectResult = "false"
    /\ req.op = "view"
    /\ sendPostCalls = 0

----------------------------------------------------------------------------
(* C17: from connectWiFi to the deep sleep of the operate branch the       *)
(* Config in RAM is the one loadConfig read and no step changes it or      *)
(* /config.txt; a step that services a view changes neither, and shows the *)
(* Config as it is; /config.txt changes only in a step that services a     *)
(* delete or a save, and the Config in RAM only there, in loadConfig at    *)
(* setup() and in the loss of the RAM at a restart or wake.                *)
C17_State ==
    /\ pc \in {"connectWiFi", "sendPost", "goToDeepSleep"} \/ (Suspended /\ ~apOn)
          => config = Stored
    /\ req.op = "view" =>
          /\ config = req.before
          /\ req.after = req.before
          /\ req.html = renderRoot(config)

C17_Step ==
    /\ pc \in {"connectWiFi", "sendPost", "goToDeepSleep"} =>
          UNCHANGED << config, spiffs >>
    /\ pc = "handleClient" /\ pc' # pc /\ req'.op = "view" =>
          UNCHANGED << config, spiffs >>
    /\ spiffs' # spiffs =>
          pc = "handleClient" /\ req'.op \in {"delete", "save"}
    /\ config' # config =>
          \/ pc = "setup" /\ config' = Stored
          \/ pc = "handleClient" /\ req'.op \in {"delete", "save"}
          \/ pc = "suspended" /\ pc' = "setup"

C17_ConfigFrame == []C17_State /\ [][C17_Step]_vars

\* a view serviced in a boot whose Config holds two networks, an endpoint and a
\* payload
C17_Witness ==
    /\ req.op = "view"
    /\ pc = "checkTimeout"
    /\ Len(config.ssids) = 2
    /\ config.postUrl # << >>
    /\ config.jsonBody # << >>
    /\ spiffs.data = FileText(config)

----------------------------------------------------------------------------
----------------------------------------------------------------------------
(* C19: in a boot whose pin read low connectWiFi is not called: no access  *)
(* point is registered, wifiMulti.run() is not called, nothing has blinked *)
(* when setupAP is reached and only the three blinks of the entry after    *)
(* it, and the boot is in Configuring or suspended from there; calls of    *)
(* wifiMulti.run() and registered access points are found only in boots    *)
(* whose pin read high.                                                    *)
C19_PinLowNoAssociation ==
    /\ pin12 = 0 =>
          /\ wifiMulti = << >>
          /\ runs = 0
          /\ i = 0
          /\ connectResult = "none"
          /\ connectedTo = 0
          /\ wifiStatus = "WL_DISCONNECTED"
          /\ pc = "setupAP" => flashes = << >>
          /\ apOn => flashes = << 3 >>
          /\ Configuring \/ (Suspended /\ apOn)
    /\ runs > 0 \/ wifiMulti # << >> \/ pc = "connectWiFi" => pin12 = 1

\* the portal is up in a boot whose pin read low although two networks are
\* stored: none was registered, none tried
C19_Witness ==
    /\ pin12 = 0
    /\ pc = "handleClient"
    /\ Len(config.ssids) = 2
    /\ wifiMulti = << >>
    /\ runs = 0
    /\ flashes = << 3 >>

----------------------------------------------------------------------------
(* The portal after weeks of requests: the 32-bit clock is about to wrap.  *)

\* how many ms before the wrap of millis() the last request was serviced
WrapLeads == { 1, TIMEOUT_MS, TIMEOUT_MS + 1 }

\* 2^32 - k as an unsigned long, for 0 < k
Before32(k) == [hi |-> W16 - 1 - ((k - 1) \div W16),
                lo |-> W16 - 1 - ((k - 1) % W16)]

\* A first boot with the pin low whose portal has serviced views often enough
\* to stay up; the last one has just been serviced, at `origin` on the clock.
\* time and idleSince count from that instant (and entryTime is not followed).
InitWrap ==
    /\ pc = "checkTimeout"
    /\ \E k \in WrapLeads : origin = Before32(k)
    /\ lastRequestTime = origin
    /\ time = 0
    /\ idleSince = 0
    /\ entryTime = 0
    /\ spiffs = [exists |-> FALSE, data |-> << >>]
    /\ config = EmptyConfig
    /\ i = 0
    /\ wifiMulti = << >>
    /\ wifiStatus = "WL_DISCONNECTED"
    /\ apOn = TRUE
    /\ pin12 = 0
    /\ runs = 0
    /\ connectResult = "none"
    /\ connectedTo = 0
    /\ flashes = << 3 >>
    /\ posts = << >>
    /\ sendPostCalls = 0
    /\ req = [NoRequest EXCEPT !.op = "view", !.html = renderRoot(EmptyConfig),
                               !.code = 200, !.text = "text/html",
                               !.flash = errorFlash(<< >>, 1)]

SpecWrap == InitWrap /\ [][Next]_vars

\* the largest unsigned long
Top32 == [hi |-> W16 - 1, lo |-> W16 - 1]

\* clock values and idle times over the whole range of an unsigned long
Samples32 ==
    { U32(0), U32(1), U32(TIMEOUT_MS), U32(TIMEOUT_MS + 1), Top32,
      Before32(TIMEOUT_MS), Before32(TIMEOUT_MS + 1),
      [hi |-> W16 \div 2, lo |-> 0], [hi |-> 0, lo |-> W16 - 1] }

----------------------------------------------------------------------------
(* C20: while the portal is up, millis() - lastRequestTime in 32 bits is   *)
(* the time that has passed since the last serviced request, also when the *)
(* clock has wrapped in between, so that a check of loop() suspends the    *)
(* device exactly when more than TIMEOUT_MS have passed; and for every     *)
(* clock value a and idle time d below 2^32, (a + d) - a in 32 bits is d.  *)
C20_State ==
    /\ apOn =>
          /\ lastRequestTime = Add32(origin, U32(idleSince))
          /\ Sub32(millis, lastRequestTime) = U32(time - idleSince)
          /\ Suspended => time - idleSince > TIMEOUT_MS
    /\ \A a \in Samples32, d \in Samples32 :
          /\ Sub32(Add32(a, d), a) = d
          /\ timedOut(Add32(a, d), a) <=> Gt32(d, U32(TIMEOUT_MS))

C20_Step ==
    apOn /\ pc = "checkTimeout" /\ pc' # pc =>
        (pc' = "suspended" <=> time - idleSince > TIMEOUT_MS)

C20_WrapSafe == []C20_State /\ [][C20_Step]_vars

\* suspended at the very millisecond the clock wrapped to 0, the last request
\* having been serviced TIMEOUT_MS + 1 ms before the wrap
C20_Witness ==
    /\ Suspended
    /\ apOn
    /\ lastRequestTime = Before32(TIMEOUT_MS + 1)
    /\ millis = U32(0)
    /\ time - idleSince = TIMEOUT_MS + 1

====
